---- MODULE Spec2Model ----
(***************************************************************************)
(* Model of learning_method.py: the five Theano update rules sgd,          *)
(* sgdmomentum, adagrad, adadelta and adam.                                *)
(*                                                                         *)
(* Every tensor is modelled coordinate by coordinate (all operations of    *)
(* the source are elementwise), so a parameter is one scalar.  A floatX    *)
(* scalar is a pair <<kind, n>>: <<"fin", n>> is the number n / Scale      *)
(* (fixed point, results rounded to the nearest unit), <<"nan", 0>> is NaN *)
(* and <<"inf", s>> is +/- infinity, with the IEEE rules for 0/0, x/0 and  *)
(* sqrt of a negative number.                                              *)
(*                                                                         *)
(* Each function of the source creates its shared variables and returns a  *)
(* list of (shared variable, new value expression) pairs.  One training    *)
(* step evaluates every expression on the values the shared variables hold *)
(* before the step and then assigns them all.                              *)
(***************************************************************************)
EXTENDS Integers, Sequences, FiniteSets, TLC

\* ------------------------------------------------------------------ bounds
MaxParams == 2
MaxSteps == 2

\* ------------------------------------------------------- floatX arithmetic
Scale == 16

Fin(n) == <<"fin", n>>
NaN == <<"nan", 0>>
Inf(s) == <<"inf", s>>
Zero == Fin(0)
One == Fin(Scale)

IsFin(x) == x[1] = "fin"
IsNaN(x) == x[1] = "nan"
IsInf(x) == x[1] = "inf"

Abs(n) == IF n < 0 THEN -n ELSE n
Sign(n) == IF n < 0 THEN -1 ELSE IF n > 0 THEN 1 ELSE 0
Min(a, b) == IF a < b THEN a ELSE b

\* a / b rounded to the nearest integer (b # 0)
RoundDiv(a, b) == Sign(a) * Sign(b) * ((2 * Abs(a) + Abs(b)) \div (2 * Abs(b)))

\* largest r with r * r <= n (n >= 0)
RECURSIVE ISqrtFrom(_, _)
ISqrtFrom(n, r) == IF (r + 1) * (r + 1) > n THEN r ELSE ISqrtFrom(n, r + 1)
ISqrt(n) == ISqrtFrom(n, 0)

SignOf(x) == IF IsFin(x) THEN Sign(x[2]) ELSE x[2]

Neg(x) == IF IsNaN(x) THEN NaN ELSE <<x[1], -x[2]>>

Add(x, y) ==
    IF IsNaN(x) \/ IsNaN(y) THEN NaN
    ELSE IF IsInf(x) /\ IsInf(y) THEN (IF x[2] = y[2] THEN x ELSE NaN)
    ELSE IF IsInf(x) THEN x
    ELSE IF IsInf(y) THEN y
    ELSE Fin(x[2] + y[2])

Sub(x, y) == Add(x, Neg(y))

Mul(x, y) ==
    IF IsNaN(x) \/ IsNaN(y) THEN NaN
    ELSE IF IsInf(x) \/ IsInf(y)
         THEN (IF SignOf(x) * SignOf(y) = 0 THEN NaN ELSE Inf(SignOf(x) * SignOf(y)))
    ELSE Fin(RoundDiv(x[2] * y[2], Scale))

Div(x, y) ==
    IF IsNaN(x) \/ IsNaN(y) THEN NaN
    ELSE IF IsInf(x) /\ IsInf(y) THEN NaN
    ELSE IF IsInf(x) THEN Inf(IF SignOf(y) < 0 THEN -x[2] ELSE x[2])
    ELSE IF IsInf(y) THEN Zero
    ELSE IF y[2] = 0 THEN (IF x[2] = 0 THEN NaN ELSE Inf(Sign(x[2])))
    ELSE Fin(RoundDiv(x[2] * Scale, y[2]))

Sqrt(x) ==
    IF IsNaN(x) THEN NaN
    ELSE IF IsInf(x) THEN (IF x[2] > 0 THEN x ELSE NaN)
    ELSE IF x[2] < 0 THEN NaN
    ELSE Fin(ISqrt(x[2] * Scale))

\* x ** 2.
Sq(x) == Mul(x, x)

\* x ** t for a counter t >= 1
RECURSIVE Pow(_, _)
Pow(x, t) == IF t <= 1 THEN x ELSE Mul(Pow(x, t - 1), x)

\* comparisons of floats: every comparison with NaN is false
Lt(x, y) ==
    /\ ~IsNaN(x) /\ ~IsNaN(y)
    /\ IF IsFin(x) /\ IsFin(y) THEN x[2] < y[2]
       ELSE IF IsInf(x) /\ IsInf(y) THEN x[2] < y[2]
       ELSE IF IsInf(x) THEN x[2] < 0
       ELSE y[2] > 0
Le(x, y) == ~IsNaN(x) /\ ~IsNaN(y) /\ (x = y \/ Lt(x, y))

\* ------------------------------------------------------------ input values
LrVals == {0, Scale \div 2, Scale}
MomentumVals == {-2, 0, Scale \div 2, Scale}
EpsilonVals == {-1, 0, 1}
RhoVals == {Scale \div 2, Scale}
BetaVals == {Scale \div 2, Scale}
GradVals == {-Scale, 0, Scale}
ParamVals == {Scale}

SeqsOf(S, n) == [1..n -> S]
FinSeq(s) == [i \in DOMAIN s |-> Fin(s[i])]
Zeros(n) == [i \in 1..n |-> Zero]

\* ------------------------------------------------------ shared variables
VARIABLES opt, steps, gradLog, storeLog, twin, watch

vars == <<opt, steps, gradLog, storeLog, twin, watch>>

\* The shared variables of one optimizer, by name: the caller's parameters
\* and whatever the chosen function created.
NewStore(P) ==
    [params |-> P, velocities |-> <<>>, gsums |-> <<>>,
     accu_gradients |-> <<>>, accu_deltas |-> <<>>,
     m_prev |-> <<>>, v_prev |-> <<>>, t |-> <<>>]

\* before any of the five functions is called
Unbuilt(P) ==
    [status |-> "new", alg |-> "none", hyper |-> [lr |-> Zero], ngrads |-> 0,
     store |-> NewStore(P), error |-> "none"]

Built(alg, H, ng, S) ==
    [status |-> "built", alg |-> alg, hyper |-> H, ngrads |-> ng,
     store |-> S, error |-> "none"]

\* list concatenation of a list of lists (updates.append in loop order)
RECURSIVE Concat(_)
Concat(ss) == IF ss = <<>> THEN <<>> ELSE Head(ss) \o Concat(Tail(ss))

\* ---------------------------------------------------------------- sgd
sgd(P, ng, lr) == Built("sgd", [lr |-> Fin(lr)], ng, NewStore(P))

sgd_updates(S, G, H) ==
    [i \in 1..Min(Len(S.params), Len(G)) |->
        <<"params", i, Sub(S.params[i], Mul(H.lr, G[i]))>>]

\* ---------------------------------------------------------- sgdmomentum
momentum_ok_closed(momentum) == 0 <= momentum /\ momentum <= Scale

momentum_ok(momentum) == 0 <= momentum /\ momentum < Scale

sgdmomentum(P, ng, lr, momentum) ==
    IF ~momentum_ok(momentum)
    THEN [Unbuilt(P) EXCEPT !.status = "failed", !.alg = "sgdmomentum",
                            !.hyper = [lr |-> Fin(lr), momentum |-> Fin(momentum)],
                            !.error = "AssertionError"]
    ELSE Built("sgdmomentum", [lr |-> Fin(lr), momentum |-> Fin(momentum)], ng,
               [NewStore(P) EXCEPT !.velocities = Zeros(Len(P))])

\* mutant: every parameter reads the velocity of the first parameter
sgdmomentum_updates_firstvelocity(S, G, H) ==
    Concat([i \in 1..Min(Min(Len(S.params), Len(G)), Len(S.velocities)) |->
        LET new_velocity == Sub(Mul(H.momentum, S.velocities[1]), Mul(H.lr, G[i]))
        IN  << <<"velocities", i, new_velocity>>,
               <<"params", i, Add(S.params[i], new_velocity)>> >>])

\* mutant: the velocity of the previous step is not carried over
sgdmomentum_updates_novelocity(S, G, H) ==
    Concat([i \in 1..Min(Min(Len(S.params), Len(G)), Len(S.velocities)) |->
        LET new_velocity == Neg(Mul(H.lr, G[i]))
        IN  << <<"velocities", i, new_velocity>>,
               <<"params", i, Add(S.params[i], new_velocity)>> >>])

sgdmomentum_updates(S, G, H) ==
    Concat([i \in 1..Min(Min(Len(S.params), Len(G)), Len(S.velocities)) |->
        LET new_velocity == Sub(Mul(H.momentum, S.velocities[i]), Mul(H.lr, G[i]))
        IN  << <<"velocities", i, new_velocity>>,
               <<"params", i, Add(S.params[i], new_velocity)>> >>])

\* -------------------------------------------------------------- adagrad
adagrad(P, ng, lr, epsilon) ==
    Built("adagrad", [lr |-> Fin(lr), epsilon |-> Fin(epsilon)], ng,
          [NewStore(P) EXCEPT !.gsums = Zeros(Len(P))])

\* mutant: gsum is overwritten by the last squared gradient
adagrad_updates_reset(S, G, H) ==
    Concat([i \in 1..Min(Min(Len(S.params), Len(G)), Len(S.gsums)) |->
        LET new_gsum == Sq(G[i])
        IN  << <<"gsums", i, new_gsum>>,
               <<"params", i,
                 Sub(S.params[i],
                     Div(Mul(H.lr, G[i]), Sqrt(Add(new_gsum, H.epsilon))))>> >>])

adagrad_updates(S, G, H) ==
    Concat([i \in 1..Min(Min(Len(S.params), Len(G)), Len(S.gsums)) |->
        LET new_gsum == Add(S.gsums[i], Sq(G[i]))
        IN  << <<"gsums", i, new_gsum>>,
               <<"params", i,
                 Sub(S.params[i],
                     Div(Mul(H.lr, G[i]), Sqrt(Add(new_gsum, H.epsilon))))>> >>])

\* ------------------------------------------------------------- adadelta
adadelta(P, ng, rho, epsilon) ==
    Built("adadelta", [rho |-> Fin(rho), epsilon |-> Fin(epsilon)], ng,
          [NewStore(P) EXCEPT !.accu_gradients = Zeros(Len(P)),
                              !.accu_deltas = Zeros(Len(P))])

\* mutant: the step is recomputed from the already updated accu_delta
adadelta_updates_newdelta(S, G, H) ==
    Concat([i \in 1..Min(Min(Len(S.params), Len(G)),
                         Min(Len(S.accu_gradients), Len(S.accu_deltas))) |->
        LET new_accu_gradient ==
                Add(Mul(H.rho, S.accu_gradients[i]), Mul(Sub(One, H.rho), Sq(G[i])))
            delta_0 ==
                Mul(Neg(Sqrt(Div(Add(S.accu_deltas[i], H.epsilon),
                                 Add(new_accu_gradient, H.epsilon)))), G[i])
            new_accu_delta ==
                Add(Mul(H.rho, S.accu_deltas[i]), Mul(Sub(One, H.rho), Sq(delta_0)))
            delta_x ==
                Mul(Neg(Sqrt(Div(Add(new_accu_delta, H.epsilon),
                                 Add(new_accu_gradient, H.epsilon)))), G[i])
        IN  << <<"accu_gradients", i, new_accu_gradient>>,
               <<"accu_deltas", i, new_accu_delta>>,
               <<"params", i, Add(S.params[i], delta_x)>> >>])

adadelta_updates(S, G, H) ==
    Concat([i \in 1..Min(Min(Len(S.params), Len(G)),
                         Min(Len(S.accu_gradients), Len(S.accu_deltas))) |->
        LET new_accu_gradient ==
                Add(Mul(H.rho, S.accu_gradients[i]), Mul(Sub(One, H.rho), Sq(G[i])))
            delta_x ==
                Mul(Neg(Sqrt(Div(Add(S.accu_deltas[i], H.epsilon),
                                 Add(new_accu_gradient, H.epsilon)))), G[i])
            new_accu_delta ==
                Add(Mul(H.rho, S.accu_deltas[i]), Mul(Sub(One, H.rho), Sq(delta_x)))
        IN  << <<"accu_gradients", i, new_accu_gradient>>,
               <<"accu_deltas", i, new_accu_delta>>,
               <<"params", i, Add(S.params[i], delta_x)>> >>])

\* ----------------------------------------------------------------- adam
\* m_prev and v_prev are created inside the loop over zip(params, gradients)
adam(P, ng, lr, beta1, beta2, epsilon) ==
    Built("adam",
          [lr |-> Fin(lr), beta1 |-> Fin(beta1), beta2 |-> Fin(beta2),
           epsilon |-> Fin(epsilon)], ng,
          [NewStore(P) EXCEPT !.m_prev = Zeros(Min(Len(P), ng)),
                              !.v_prev = Zeros(Min(Len(P), ng)),
                              !.t = <<1>>])

\* mutant: t is incremented once per parameter
adam_updates_tperparam(S, G, H) ==
    Concat([i \in 1..Min(Len(S.params), Len(G)) |->
        LET t == S.t[1]
            m == Add(Mul(H.beta1, S.m_prev[i]), Mul(Sub(One, H.beta1), G[i]))
            v == Add(Mul(H.beta2, S.v_prev[i]), Mul(Sub(One, H.beta2), Sq(G[i])))
            m_hat == Div(m, Sub(One, Pow(H.beta1, t)))
            v_hat == Div(v, Sub(One, Pow(H.beta2, t)))
            theta == Sub(S.params[i],
                         Div(Mul(H.lr, m_hat), Add(Sqrt(v_hat), H.epsilon)))
        IN  << <<"m_prev", i, m>>, <<"v_prev", i, v>>, <<"params", i, theta>> >>])
    \o << <<"t", 1, S.t[1] + Min(Len(S.params), Len(G))>> >>

\* mutant: parameter i reads t after the increments of the parameters before it
adam_updates_tdrift(S, G, H) ==
    Concat([i \in 1..Min(Len(S.params), Len(G)) |->
        LET t == S.t[1] + (i - 1)
            m == Add(Mul(H.beta1, S.m_prev[i]), Mul(Sub(One, H.beta1), G[i]))
            v == Add(Mul(H.beta2, S.v_prev[i]), Mul(Sub(One, H.beta2), Sq(G[i])))
            m_hat == Div(m, Sub(One, Pow(H.beta1, t)))
            v_hat == Div(v, Sub(One, Pow(H.beta2, t)))
            theta == Sub(S.params[i],
                         Div(Mul(H.lr, m_hat), Add(Sqrt(v_hat), H.epsilon)))
        IN  << <<"m_prev", i, m>>, <<"v_prev", i, v>>, <<"params", i, theta>> >>])
    \o << <<"t", 1, S.t[1] + 1>> >>

adam_updates(S, G, H) ==
    Concat([i \in 1..Min(Len(S.params), Len(G)) |->
        LET t == S.t[1]
            m == Add(Mul(H.beta1, S.m_prev[i]), Mul(Sub(One, H.beta1), G[i]))
            v == Add(Mul(H.beta2, S.v_prev[i]), Mul(Sub(One, H.beta2), Sq(G[i])))
            m_hat == Div(m, Sub(One, Pow(H.beta1, t)))
            v_hat == Div(v, Sub(One, Pow(H.beta2, t)))
            theta == Sub(S.params[i],
                         Div(Mul(H.lr, m_hat), Add(Sqrt(v_hat), H.epsilon)))
        IN  << <<"m_prev", i, m>>, <<"v_prev", i, v>>, <<"params", i, theta>> >>])
    \o << <<"t", 1, S.t[1] + 1>> >>

\* ----------------------------------------------------- one training step
\* the update list the built function returned, evaluated on the current
\* values of the shared variables and on this step's gradients
updates(o, G) ==
    CASE o.alg = "sgd" -> sgd_updates(o.store, G, o.hyper)
      [] o.alg = "sgdmomentum" -> sgdmomentum_updates(o.store, G, o.hyper)
      [] o.alg = "adagrad" -> adagrad_updates(o.store, G, o.hyper)
      [] o.alg = "adadelta" -> adadelta_updates(o.store, G, o.hyper)
      [] o.alg = "adam" -> adam_updates(o.store, G, o.hyper)

\* all shared variables named in the list receive their new value at once
ApplyUpdates(S, U) ==
    [k \in DOMAIN S |->
        [i \in DOMAIN S[k] |->
            IF \E j \in DOMAIN U : U[j][1] = k /\ U[j][2] = i
            THEN U[CHOOSE j \in DOMAIN U : U[j][1] = k /\ U[j][2] = i][3]
            ELSE S[k][i]]]

StepOpt(o, G) == [o EXCEPT !.store = ApplyUpdates(o.store, updates(o, G))]

\* ---------------------------------------------------------------- actions
Init ==
    /\ \E n \in 0..MaxParams : \E P \in SeqsOf(ParamVals, n) :
          /\ opt = Unbuilt(FinSeq(P))
          /\ twin = Unbuilt(FinSeq(P))
    /\ steps = 0
    /\ gradLog = <<>>
    /\ storeLog = <<>>
    /\ watch = <<0, 0>>

Fresh == opt.status = "new" /\ watch = <<0, 0>>

\* the length of the list T.grad returned for this cost and these params
GradLens == 0..Len(opt.store.params)

Build_sgd ==
    /\ Fresh
    /\ \E ng \in GradLens, lr \in LrVals : opt' = sgd(opt.store.params, ng, lr)
    /\ UNCHANGED <<steps, gradLog, storeLog, twin, watch>>

Build_sgdmomentum ==
    /\ Fresh
    /\ \E ng \in GradLens, lr \in LrVals, momentum \in MomentumVals :
          opt' = sgdmomentum(opt.store.params, ng, lr, momentum)
    /\ UNCHANGED <<steps, gradLog, storeLog, twin, watch>>

Build_adagrad ==
    /\ Fresh
    /\ \E ng \in GradLens, epsilon \in EpsilonVals :
          opt' = adagrad(opt.store.params, ng, Scale, epsilon)
    /\ UNCHANGED <<steps, gradLog, storeLog, twin, watch>>

Build_adadelta ==
    /\ Fresh
    /\ \E ng \in GradLens, rho \in RhoVals, epsilon \in EpsilonVals :
          opt' = adadelta(opt.store.params, ng, rho, epsilon)
    /\ UNCHANGED <<steps, gradLog, storeLog, twin, watch>>

Build_adam ==
    /\ Fresh
    /\ \E ng \in GradLens, beta1 \in BetaVals, beta2 \in BetaVals,
          epsilon \in EpsilonVals \ {-1} :
          opt' = adam(opt.store.params, ng, Scale, beta1, beta2, epsilon)
    /\ UNCHANGED <<steps, gradLog, storeLog, twin, watch>>

\* the training loop calls the compiled function once per batch
Step ==
    /\ opt.status = "built"
    /\ watch = <<0, 0>>
    /\ steps < MaxSteps
    /\ \E g \in SeqsOf(GradVals, opt.ngrads) :
          /\ opt' = StepOpt(opt, FinSeq(g))
          /\ gradLog' = Append(gradLog, FinSeq(g))
    /\ storeLog' = Append(storeLog, opt.store)
    /\ steps' = steps + 1
    /\ UNCHANGED <<twin, watch>>

Next ==
    \/ Build_sgd
    \/ Build_sgdmomentum
    \/ Build_adagrad
    \/ Build_adadelta
    \/ Build_adam
    \/ Step

Spec == Init /\ [][Next]_vars

\* ------------------------------------------------- two optimizers side by side
\* The same function is called with the same hyperparameters on two parameter
\* lists.  Parameter watch[1] of the first list and parameter watch[2] of the
\* second start with the same value and receive the same gradient in every
\* step; the other parameters of the two lists start with different values,
\* receive different gradients and stand before or after the watched one.
\* The first list is the baseline (other gradients zero); the second varies.
PairConfigs ==
    [alg : {"sgd"}, lr : {Scale}]
    \cup [alg : {"sgdmomentum"}, lr : {Scale}, momentum : {0, Scale \div 2}]
    \cup [alg : {"adagrad"}, lr : {Scale}, epsilon : {0, 1}]
    \cup [alg : {"adadelta"}, rho : {Scale \div 2}, epsilon : {0, 1}]
    \cup [alg : {"adam"}, lr : {Scale}, beta1 : {Scale \div 2},
          beta2 : {Scale \div 2}, epsilon : {0, 1}]

Build(c, P, ng) ==
    CASE c.alg = "sgd" -> sgd(P, ng, c.lr)
      [] c.alg = "sgdmomentum" -> sgdmomentum(P, ng, c.lr, c.momentum)
      [] c.alg = "adagrad" -> adagrad(P, ng, c.lr, c.epsilon)
      [] c.alg = "adadelta" -> adadelta(P, ng, c.rho, c.epsilon)
      [] c.alg = "adam" -> adam(P, ng, c.lr, c.beta1, c.beta2, c.epsilon)

InitPair ==
    /\ \E n \in 1..MaxParams, w \in 1..MaxParams :
          /\ w <= n
          /\ watch = <<1, w>>
          /\ opt = Unbuilt([i \in 1..n |-> One])
          /\ twin = Unbuilt([i \in 1..n |-> IF i = w THEN One ELSE Zero])
    /\ steps = 0
    /\ gradLog = <<>>
    /\ storeLog = <<>>

PairBuild ==
    /\ opt.status = "new"
    /\ \E c \in PairConfigs :
          /\ opt' = Build(c, opt.store.params, Len(opt.store.params))
          /\ twin' = Build(c, twin.store.params, Len(twin.store.params))
    /\ UNCHANGED <<steps, gradLog, storeLog, watch>>

PairStep ==
    /\ opt.status = "built"
    /\ steps < MaxSteps
    /\ \E g2 \in SeqsOf(GradVals, twin.ngrads) :
          LET own == g2[watch[2]]
              g == [i \in 1..opt.ngrads |-> IF i = watch[1] THEN own ELSE 0]
          IN  /\ opt' = StepOpt(opt, FinSeq(g))
              /\ twin' = StepOpt(twin, FinSeq(g2))
              /\ gradLog' = Append(gradLog, FinSeq(g))
    /\ storeLog' = Append(storeLog, opt.store)
    /\ steps' = steps + 1
    /\ UNCHANGED watch

NextPair ==
    \/ PairBuild
    \/ PairStep

SpecPair == InitPair /\ [][NextPair]_vars

\* ============================================================= properties
IsStep == steps' = steps + 1
Zipped(o) == 1..Min(Len(o.store.params), o.ngrads)
\* the shared variables after step k (k <= steps); storeLog[k] holds them before
StoreAfter(k) == IF k = steps THEN opt.store ELSE storeLog[k + 1]
AbsF(x) == IF IsFin(x) THEN Fin(Abs(x[2])) ELSE IF IsInf(x) THEN Inf(1) ELSE NaN
AllZero(s) == \A i \in DOMAIN s : s[i] = Zero

\* C1: Adam's counter t is 1 before the first step, equals 1 + k after k step
\* calls whatever the number of parameters, and never decreases.
C1_AdamCounter ==
    opt.status = "built" /\ opt.alg = "adam" =>
        /\ opt.store.t = <<1 + steps>>
        /\ \A k \in 1..steps :
              /\ storeLog[k].t = <<k>>
              /\ storeLog[k].t[1] <= StoreAfter(k).t[1]

C1_Witness ==
    /\ opt.alg = "adam" /\ steps = 2 /\ opt.store.t = <<3>>
    /\ Len(opt.store.params) = 2 /\ opt.ngrads = 2

\* C2: in the k-th Adam step every parameter's bias corrections 1 - beta1^t
\* and 1 - beta2^t are evaluated with t = k: each new parameter value is the
\* one obtained from the new m and v with the corrections taken at t = k.
C2_AdamBiasT ==
    opt.status = "built" /\ opt.alg = "adam" /\ steps >= 1 =>
        \A i \in Zipped(opt) :
            LET H == opt.hyper
                k == steps
                m_hat == Div(opt.store.m_prev[i], Sub(One, Pow(H.beta1, k)))
                v_hat == Div(opt.store.v_prev[i], Sub(One, Pow(H.beta2, k)))
            IN  opt.store.params[i] =
                    Sub(storeLog[k].params[i],
                        Div(Mul(H.lr, m_hat), Add(Sqrt(v_hat), H.epsilon)))

C2_Witness ==
    /\ opt.alg = "adam" /\ steps = 2 /\ opt.ngrads = 2
    /\ opt.hyper.beta1 = Fin(Scale \div 2) /\ opt.hyper.beta2 = Fin(Scale \div 2)
    /\ \A i \in 1..2 : gradLog[2][i] # Zero /\ IsFin(opt.store.params[i])
    /\ opt.store.params # storeLog[2].params

C4_MomentumDomain ==
    opt.alg = "sgdmomentum" =>
        LET momentum == opt.hyper.momentum[2]
        IN  IF 0 <= momentum /\ momentum < Scale
            THEN /\ opt.status = "built"
                 /\ Len(opt.store.velocities) = Len(opt.store.params)
                 /\ steps = 0 => AllZero(opt.store.velocities)
            ELSE /\ opt.status = "failed"
                 /\ opt.error = "AssertionError"
                 /\ opt.store.velocities = <<>>
                 /\ steps = 0

C4_Witness ==
    /\ opt.alg = "sgdmomentum" /\ opt.status = "failed"
    /\ opt.hyper.momentum = One /\ Len(opt.store.params) = 2

\* C5: adagrad, adadelta and adam cannot be built with epsilon <= 0, with rho
\* outside [0, 1) or with beta1 or beta2 outside [0, 1).
InDomain(x) == 0 <= x[2] /\ x[2] < Scale
C5_HyperparametersRejected ==
    opt.status = "built" =>
        /\ opt.alg \in {"adagrad", "adadelta", "adam"} => opt.hyper.epsilon[2] > 0
        /\ opt.alg = "adadelta" => InDomain(opt.hyper.rho)
        /\ opt.alg = "adam" => InDomain(opt.hyper.beta1) /\ InDomain(opt.hyper.beta2)

\* displacement of parameter i in step k (k <= steps)
Displacement(k, i) == Sub(StoreAfter(k).params[i], storeLog[k].params[i])

TwoEqualMomentumSteps ==
    /\ opt.status = "built" /\ opt.alg = "sgdmomentum"
    /\ opt.hyper.momentum[2] > 0 /\ opt.hyper.lr[2] > 0
    /\ opt.ngrads = Len(opt.store.params)
    /\ steps >= 2 /\ gradLog[1] = gradLog[2]

ExactMul(x, y) == (x[2] * y[2]) % Scale = 0

C7_ZeroGradientNoOp ==
    (opt.status = "built" /\ steps = 1 /\ AllZero(gradLog[1])) =>
        /\ opt.store.params = storeLog[1].params
        /\ \A k \in {"velocities", "gsums", "accu_gradients", "accu_deltas",
                     "m_prev", "v_prev"} : AllZero(opt.store[k])

\* C8: an adadelta step computes delta from the accu_delta held before the
\* step and the new accu_gradient, stores rho * accu_delta + (1 - rho) *
\* delta^2 for that delta, and moves the parameter by that delta.
C8_AdadeltaReadBeforeWrite ==
    opt.status = "built" /\ opt.alg = "adadelta" /\ steps >= 1 =>
        \A i \in Zipped(opt) :
            LET H == opt.hyper
                before == storeLog[steps]
                old == before.accu_deltas[i]
                delta == Mul(Neg(Sqrt(Div(Add(old, H.epsilon),
                                          Add(opt.store.accu_gradients[i], H.epsilon)))),
                             gradLog[steps][i])
            IN  /\ opt.store.accu_deltas[i] =
                       Add(Mul(H.rho, old), Mul(Sub(One, H.rho), Sq(delta)))
                /\ opt.store.params[i] = Add(before.params[i], delta)

C8_Witness ==
    /\ opt.alg = "adadelta" /\ steps = 2 /\ opt.ngrads >= 1
    /\ opt.hyper.epsilon[2] > 0 /\ InDomain(opt.hyper.rho)
    /\ storeLog[2].accu_deltas[1] # Zero /\ gradLog[2][1] # Zero
    /\ opt.store.accu_deltas[1] # storeLog[2].accu_deltas[1]
    /\ opt.store.params[1] # storeLog[2].params[1]

\* sum of the squares of the gradients coordinate i has seen in steps 1..k
RECURSIVE SumSq(_, _)
SumSq(i, k) ==
    IF k = 0 THEN Zero
    ELSE Add(SumSq(i, k - 1),
             IF i <= Len(gradLog[k]) THEN Sq(gradLog[k][i]) ELSE Zero)

\* C9: every coordinate of adagrad's gsum is the sum of the squares of all
\* gradients seen so far (zero at first) and no step decreases it.
C9_GsumAccumulates ==
    opt.status = "built" /\ opt.alg = "adagrad" =>
        \A i \in DOMAIN opt.store.gsums :
            /\ steps = 0 => opt.store.gsums[i] = Zero
            /\ opt.store.gsums[i] = SumSq(i, steps)
            /\ \A k \in 1..steps :
                  Le(storeLog[k].gsums[i], StoreAfter(k).gsums[i])

C9_Witness ==
    /\ opt.alg = "adagrad" /\ steps = 2 /\ opt.ngrads >= 1
    /\ gradLog[1][1] # Zero /\ gradLog[2][1] # Zero
    /\ opt.store.gsums[1] = Fin(2 * Scale)

\* everything an optimizer holds for parameter i, and the shared counter
Own(o, i) ==
    [k \in DOMAIN o.store |->
        IF k = "t" THEN o.store.t
        ELSE IF i \in DOMAIN o.store[k] THEN <<o.store[k][i]>> ELSE <<>>]

\* C10: the value and the auxiliary state of a parameter after any number of
\* steps depend only on its own initial value and its own gradients: two
\* optimizers that differ in the other parameters' values, states, gradients
\* and positions agree on it.
C10_Independent ==
    opt.status = "built" => Own(opt, watch[1]) = Own(twin, watch[2])

C10_Witness ==
    /\ opt.alg = "sgdmomentum" /\ steps = 2 /\ watch = <<1, 2>>
    /\ opt.hyper.momentum # Zero
    /\ opt.store.params[1] # storeLog[1].params[1]
    /\ twin.store.velocities[1] # opt.store.velocities[2]
    /\ twin.store.velocities[1] # twin.store.velocities[2]
    /\ twin.store.params[1] # opt.store.params[2]

====
